---- MODULE Spec2Model ----
(***************************************************************************)
(* Model of repo_worker/tuf/repository.py: MetadataRepository, the         *)
(* maintenance engine for TUF role metadata (bins -> snapshot ->           *)
(* timestamp).  Every exposed operation is modelled as a process that      *)
(* walks through the storage I/O steps (load / persist) of its code, with  *)
(* the in-memory work between two I/O steps folded into the step that      *)
(* precedes it.  Spec runs one operation at a time (single writer);        *)
(* SpecConc interleaves the steps of two workers; SpecSweep runs two       *)
(* bump_bins_roles calls in a row under several settings; SpecSign         *)
(* replaces the key vault's keys between the calls of one worker.          *)
(***************************************************************************)
EXTENDS Integers, Sequences, FiniteSets, TLC

\* ------------------------------------------------------------------ bounds
MaxBatch == 2      \* longest list of targets passed to add_targets
MaxNames == 2      \* longest list of bin names passed to publish_targets_metas
MaxFiles == 7      \* no operation starts once the storage holds this many files
MaxTicks == 1      \* how often the clock advances
MaxFailures == 1   \* how many storage / key-vault calls raise

\* ---------------------------------------------------------------- constants
BIN == "bin"
BINS == "bins"
SNAPSHOT == "snapshot"
TIMESTAMP == "timestamp"
HoursPerDay == 24

\* The delegated roles of bin's succinct_roles (bit_length 1: two bins).
BinsNames == <<"bins-0", "bins-1">>
BinsSet == {BinsNames[i] : i \in 1..Len(BinsNames)}

\* The targets a caller passes: {"path": .., "info": ..}.  Path "a" comes with
\* two different infos, paths "a" and "c" hash into the same bin.
TargetInputs ==
    { [path |-> "a", info |-> 1], [path |-> "a", info |-> 2],
      [path |-> "b", info |-> 1], [path |-> "c", info |-> 1] }

\* succinct_roles.get_role_for_target: a fixed hash of the path picks the bin.
get_role_for_target(path) ==
    IF path = "b" THEN "bins-1" ELSE "bins-0"

Procs == {1, 2}
SeqProcs == {1}

TickSteps == {HoursPerDay}
\* Expiry dates (hours) of the documents handed to add_initial_metadata: the
\* bins are a day from expiry, snapshot and timestamp are due.
InitExpires == {[bins |-> HoursPerDay, top |-> 0]}

\* Settings the worker reads: HOURS_BEFORE_EXPIRE and <expiry_id>_EXPIRATION
\* (days).
SettingsChoices ==
    { [HOURS_BEFORE_EXPIRE |-> 1,
       EXPIRATION |-> (BINS :> 1 @@ SNAPSHOT :> 1 @@ TIMESTAMP :> 1)] }

\* What the key vault returns per role name (no key at all for timestamp).
KeyChoices ==
    { (BINS :> {"kb"} @@ SNAPSHOT :> {"ks"} @@ TIMESTAMP :> {}) }

VARIABLES
    storage,    \* storage backend: filename <<role_name, version>> -> document
    keyvault,   \* key storage backend: role name -> keys
    settings,   \* settings
    now,        \* datetime.now(), in hours
    ticks,      \* clock advances so far
    failures,   \* storage / key-vault calls that raised so far
    worker      \* per worker: the call it executes, see IdleWorker

vars == <<storage, keyvault, settings, now, ticks, failures, worker>>

NoDoc == [version |-> 0]

\* A worker's frame: the operation, its position, its locals, and three history
\* fields (pre: storage when the call started; written: filenames it
\* persisted; called_for: the bin names the call's argument is about).
IdleWorker ==
    [ op |-> "none", pc |-> "idle", args |-> <<>>, groups |-> <<>>, idx |-> 0,
      snapshot |-> NoDoc, role |-> NoDoc, targets_meta |-> <<>>,
      names |-> <<>>, snapshot_version |-> 0, result |-> "none",
      failed_at |-> "none",
      pre |-> <<>>, written |-> <<>>, called_for |-> {} ]
EmptyStorage == [f \in {} |-> NoDoc]

\* ------------------------------------------------------------ pure helpers
Max(S) == CHOOSE x \in S : \A y \in S : y <= x

\* MetaFile(version=v) and a bare int, tagged so that they can be compared.
MetaFile(v) == [type |-> "MetaFile", version |-> v]
IntValue(v) == [type |-> "int", version |-> v]

\* MetaFile.__eq__: an object that is not a MetaFile is never equal.
MetaFileEq(a, b) ==
    IF b.type # "MetaFile" THEN FALSE ELSE a.version = b.version

\* _persist: all names but 'timestamp' are prefixed with the version.
Filename(role_name, version) ==
    IF role_name # TIMESTAMP THEN <<role_name, version>> ELSE <<role_name, 0>>

FilesOf(st, role_name) == {f \in DOMAIN st : f[1] = role_name}

Exists(st, role_name) == FilesOf(st, role_name) # {}

\* _load: the storage backend figures out the latest version.
Load(st, role_name) ==
    st[<<role_name, Max({f[2] : f \in FilesOf(st, role_name)})>>]

Put(st, file, doc) ==
    [f \in DOMAIN st \cup {file} |-> IF f = file THEN doc ELSE st[f]]

\* _persist
Persist(st, doc, role_name) == Put(st, Filename(role_name, doc.version), doc)

\* _bump_version
BumpVersion(doc) == [doc EXCEPT !.version = @ + 1]

\* _bump_expiry
BumpExpiry(doc, expiry_id, t, cfg) ==
    [doc EXCEPT !.expires = t + HoursPerDay * cfg.EXPIRATION[expiry_id]]

\* Variant: the signatures of the earlier pass are kept.
Sign_Append(doc, role_name, kv) ==
    [doc EXCEPT !.signatures = @ \cup kv[role_name]]

\* _sign: clear, then one signature per key of the role
Sign(doc, role_name, kv) == [doc EXCEPT !.signatures = kv[role_name]]

\* Variant: every document counts as about to expire.
NearExpiry_Always(doc, t, cfg) == TRUE

\* Variant: a document is renewed only once it has expired.
NearExpiry_Expired(doc, t, cfg) == (doc.expires - t) < 0

\* expires - now < timedelta(hours=HOURS_BEFORE_EXPIRE)
NearExpiry(doc, t, cfg) == (doc.expires - t) < cfg.HOURS_BEFORE_EXPIRE

\* Variant: a path the map already holds keeps its entry.
Upsert_KeepExisting(targets, tf) ==
    [q \in DOMAIN targets \cup {tf.path} |->
        IF q \in DOMAIN targets THEN targets[q] ELSE tf.info]

\* add_targets, line 195: targets[target_file.path] = target_file
Upsert(targets, tf) ==
    [q \in DOMAIN targets \cup {tf.path} |->
        IF q = tf.path THEN tf.info ELSE targets[q]]

RECURSIVE UpsertAll(_, _)
UpsertAll(targets, tfs) ==
    IF tfs = <<>> THEN targets
    ELSE UpsertAll(Upsert(targets, Head(tfs)), Tail(tfs))

\* add_targets, lines 178-186: group target files by responsible bin, in the
\* insertion order of the dict.
RECURSIVE GroupInto(_, _)
GroupInto(targets, acc) ==
    IF targets = <<>> THEN acc
    ELSE LET t == Head(targets)
             name == get_role_for_target(t.path)
             tf == [path |-> t.path, info |-> t.info]
             known == \E i \in 1..Len(acc) : acc[i].name = name
             acc2 == IF known
                     THEN [i \in 1..Len(acc) |->
                            IF acc[i].name = name
                            THEN [acc[i] EXCEPT !.files = Append(@, tf)]
                            ELSE acc[i]]
                     ELSE Append(acc, [name |-> name, files |-> <<tf>>])
         IN GroupInto(Tail(targets), acc2)

\* Variant: the whole batch goes to the bin of its first target.
BinTargetGroups_FirstBin(targets) ==
    IF targets = <<>> THEN <<>>
    ELSE << [name |-> get_role_for_target(targets[1].path),
             files |-> [i \in 1..Len(targets) |->
                          [path |-> targets[i].path, info |-> targets[i].info]]] >>

\* Variant: every target opens a group of its own (no grouping by bin).
BinTargetGroups_Ungrouped(targets) ==
    [i \in 1..Len(targets) |->
        [name |-> get_role_for_target(targets[i].path),
         files |-> <<[path |-> targets[i].path, info |-> targets[i].info]>>]]

BinTargetGroups(targets) == GroupInto(targets, <<>>)

\* ------------------------------------------------------------ initial state
NoTargets == [q \in {} |-> 0]
OldKeys == {"k0"}

\* The role documents handed to add_initial_metadata.
InitialMetadata(e) ==
    [f \in {<<BIN, 1>>, <<SNAPSHOT, 1>>, <<TIMESTAMP, 0>>}
            \cup {<<b, 1>> : b \in BinsSet} |->
        CASE f[1] = BIN ->
               [version |-> 1, expires |-> e.top, signatures |-> OldKeys,
                succinct_roles |-> BinsNames]
          [] f[1] = SNAPSHOT ->
               [version |-> 1, expires |-> e.top, signatures |-> OldKeys,
                meta |-> [b \in BinsSet |-> MetaFile(1)]]
          [] f[1] = TIMESTAMP ->
               [version |-> 1, expires |-> e.top, signatures |-> OldKeys,
                snapshot_meta |-> MetaFile(1)]
          [] OTHER ->
               [version |-> 1, expires |-> e.bins, signatures |-> OldKeys,
                targets |-> NoTargets]]

Init ==
    /\ storage = EmptyStorage
    /\ keyvault \in KeyChoices
    /\ settings \in SettingsChoices
    /\ now = 0
    /\ ticks = 0
    /\ failures = 0
    /\ worker = [p \in Procs |-> IdleWorker]

\* ------------------------------------------------------------ frame helpers
\* The call returns res: the frame keeps targets_meta and the history, and
\* drops the other locals.
Returned(w, res) ==
    [w EXCEPT !.pc = "done", !.result = res, !.role = NoDoc, !.args = <<>>,
              !.snapshot = NoDoc, !.idx = 0, !.groups = <<>>, !.names = <<>>,
              !.snapshot_version = 0]

\* The role name the frame's pending storage call is about.
CurrentRole(w) ==
    CASE w.pc \in {"at_load_bin", "bb_load_bin"} -> BIN
      [] w.pc \in {"at_load_bins", "at_persist"} -> w.groups[w.idx].name
      [] w.pc \in {"pt_load_bins", "bb_load_bins", "bb_persist"} -> w.names[w.idx]
      [] w.pc \in {"pt_load_snapshot", "bs_load", "us_load", "us_persist"} -> SNAPSHOT
      [] w.pc \in {"ut_load", "ut_persist"} -> TIMESTAMP
      [] OTHER -> "none"

\* Variant: no operation catches StorageError.
Raised_Uncaught(w) ==
    [Returned(w, "raised") EXCEPT !.failed_at = CurrentRole(w)]

\* The pending call raises StorageError: bump_bins_roles and bump_snapshot
\* catch it around their first load and return False, everywhere else it
\* propagates out of the operation.
Raised(w) ==
    [Returned(w, IF w.pc \in {"bb_load_bin", "bs_load"} THEN "False" ELSE "raised")
        EXCEPT !.failed_at = CurrentRole(w)]

IOLabels ==
    {"at_load_bin", "at_load_bins", "at_persist", "pt_load_snapshot",
     "pt_load_bins", "bb_load_bin", "bb_load_bins", "bb_persist", "bs_load",
     "us_load", "us_persist", "ut_load", "ut_persist"}

CanStart == Cardinality(DOMAIN storage) < MaxFiles

Begin(p, o, a, for, label) ==
    /\ worker' = [worker EXCEPT ![p] =
                    [IdleWorker EXCEPT !.op = o, !.args = a, !.pc = label,
                                       !.pre = storage, !.called_for = for]]
    /\ UNCHANGED <<storage, keyvault, settings, now, ticks, failures>>

\* A step that only changes the worker's frame.
Local(p, w2) ==
    /\ worker' = [worker EXCEPT ![p] = w2]
    /\ UNCHANGED <<storage, keyvault, settings, now, ticks, failures>>

\* A step that persists the frame's role under role_name.
Store(p, role_name, w2) ==
    /\ storage' = Persist(storage, worker[p].role, role_name)
    /\ worker' = [worker EXCEPT ![p] =
                    [w2 EXCEPT !.written =
                        Append(@, Filename(role_name, worker[p].role.version))]]
    /\ UNCHANGED <<keyvault, settings, now, ticks, failures>>

\* ------------------------------------------------- update-sign cycles (pure)
\* add_targets lines 194-199 / bump_bins_roles lines 253-255 (no files)
UpdatedBinsRole(doc, files, t, cfg, kv) ==
    Sign(BumpVersion(BumpExpiry([doc EXCEPT !.targets = UpsertAll(@, files)],
                                BINS, t, cfg)), BINS, kv)

\* Variant: every entry of the map is set to the last version passed.
UpdateMeta_All(meta, tm) ==
    IF tm = <<>> THEN meta
    ELSE [b \in DOMAIN meta |-> MetaFile(tm[Len(tm)][2])]

\* _update_snapshot, lines 140-141
RECURSIVE UpdateMeta(_, _)
UpdateMeta(meta, tm) ==
    IF tm = <<>> THEN meta
    ELSE UpdateMeta([b \in DOMAIN meta \cup {Head(tm)[1]} |->
                        IF b = Head(tm)[1] THEN MetaFile(Head(tm)[2]) ELSE meta[b]],
                    Tail(tm))

\* _update_snapshot, lines 140-145
UpdatedSnapshot(doc, tm, t, cfg, kv) ==
    Sign(BumpVersion(BumpExpiry([doc EXCEPT !.meta = UpdateMeta(@, tm)],
                                SNAPSHOT, t, cfg)), SNAPSHOT, kv)

\* Variant: the version is read before the bump.
UpdateSnapshotReturn_Stale(doc) == doc.version - 1

\* _update_snapshot, line 148
UpdateSnapshotReturn(doc) == doc.version

\* _update_timestamp, lines 121-125
UpdatedTimestamp(doc, snapshot_ver, t, cfg, kv) ==
    Sign(BumpExpiry(BumpVersion([doc EXCEPT !.snapshot_meta = MetaFile(snapshot_ver)]),
                    TIMESTAMP, t, cfg), TIMESTAMP, kv)

\* publish_targets_metas, lines 217-220: snapshot.signed.meta[..] != version
BinChanged(snap, name, bins_role) ==
    ~MetaFileEq(snap.meta[name], IntValue(bins_role.version))

\* Variant: the entry names the version after this one.
MetaEntry_Next(name, doc) == <<name, doc.version + 1>>

\* lines 202, 221, 257: (bins_name, bins_role.signed.version)
MetaEntry(name, doc) == <<name, doc.version>>

\* Variant: the length test is missing.
HasChanges_Always(tm) == TRUE

\* lines 223, 259: is there anything to fold into snapshot
HasChanges(tm) == Len(tm) # 0

\* ------------------------------------------------------------- environment
\* add_initial_metadata: the bootstrap call, made once, on an empty storage and
\* before any other operation is under way; it writes every document handed in.
add_initial_metadata(e) ==
    /\ storage = EmptyStorage
    /\ \A p \in Procs : worker[p].pc = "idle"
    /\ storage' = InitialMetadata(e)
    /\ UNCHANGED <<keyvault, settings, now, ticks, failures, worker>>

Tick(d) ==
    /\ ticks < MaxTicks
    /\ now' = now + d
    /\ ticks' = ticks + 1
    /\ UNCHANGED <<storage, keyvault, settings, failures, worker>>

\* The pending storage or key-vault call of worker p raises StorageError: a
\* failed load or sign leaves the storage as it is, a failed persist writes
\* nothing.
Fault(p) ==
    /\ failures < MaxFailures
    /\ worker[p].pc \in IOLabels
    /\ failures' = failures + 1
    /\ worker' = [worker EXCEPT ![p] = Raised(worker[p])]
    /\ UNCHANGED <<storage, keyvault, settings, now, ticks>>

Return(p) ==
    /\ worker[p].pc = "done"
    /\ Local(p, IdleWorker)

\* ------------------------------------------------------------- add_targets
Batches == UNION {[1..n -> TargetInputs] : n \in 0..MaxBatch}

add_targets(p, targets) ==
    /\ worker[p].pc = "idle"
    /\ CanStart
    /\ Begin(p, "add_targets", targets,
             {get_role_for_target(targets[i].path) : i \in 1..Len(targets)},
             "at_load_bin")

\* lines 176-186
AT_LoadBin(p) ==
    LET w == worker[p]
        g == BinTargetGroups(w.args)
    IN /\ w.pc = "at_load_bin"
       /\ Local(p, IF ~Exists(storage, BIN) THEN Raised(w)
                   ELSE IF g = <<>> THEN Returned(w, "list")
                   ELSE [w EXCEPT !.groups = g, !.idx = 1, !.args = <<>>,
                                  !.pc = "at_load_bins"])

\* lines 192-199
AT_LoadBins(p) ==
    LET w == worker[p]
        g == w.groups[w.idx]
    IN /\ w.pc = "at_load_bins"
       /\ Local(p, IF ~Exists(storage, g.name) THEN Raised(w)
                   ELSE [w EXCEPT !.pc = "at_persist",
                                  !.role = UpdatedBinsRole(Load(storage, g.name),
                                              g.files, now, settings, keyvault)])

\* Variant: after the last bin the call goes on to update snapshot.
AT_Persist_Publish(p) ==
    LET w == worker[p]
        name == w.groups[w.idx].name
        w2 == [w EXCEPT !.targets_meta = Append(@, MetaEntry(name, w.role))]
    IN /\ w.pc = "at_persist"
       /\ Store(p, name, IF w.idx = Len(w.groups)
                         THEN [w2 EXCEPT !.pc = "us_load", !.role = NoDoc,
                                         !.idx = 0]
                         ELSE [w2 EXCEPT !.idx = @ + 1, !.pc = "at_load_bins",
                                         !.role = NoDoc])

\* lines 200-204
AT_Persist(p) ==
    LET w == worker[p]
        name == w.groups[w.idx].name
        w2 == [w EXCEPT !.targets_meta = Append(@, MetaEntry(name, w.role))]
    IN /\ w.pc = "at_persist"
       /\ Store(p, name, IF w.idx = Len(w.groups) THEN Returned(w2, "list")
                         ELSE [w2 EXCEPT !.idx = @ + 1, !.pc = "at_load_bins",
                                         !.role = NoDoc])

\* --------------------------------------- _update_snapshot, _update_timestamp
\* lines 138-145
US_Load(p) ==
    LET w == worker[p]
    IN /\ w.pc = "us_load"
       /\ Local(p, IF ~Exists(storage, SNAPSHOT) THEN Raised(w)
                   ELSE [w EXCEPT !.pc = "us_persist",
                                  !.role = UpdatedSnapshot(Load(storage, SNAPSHOT),
                                             w.targets_meta, now, settings, keyvault)])

\* Variant: the operation returns once snapshot is persisted.
US_Persist_NoTimestamp(p) ==
    LET w == worker[p]
    IN /\ w.pc = "us_persist"
       /\ Store(p, SNAPSHOT,
                Returned(w, IF w.op = "publish_targets_metas" THEN "None" ELSE "True"))

\* lines 146-148
US_Persist(p) ==
    LET w == worker[p]
    IN /\ w.pc = "us_persist"
       /\ Store(p, SNAPSHOT, [w EXCEPT !.pc = "ut_load", !.role = NoDoc,
                                       !.snapshot_version = UpdateSnapshotReturn(w.role)])

\* lines 120-125
UT_Load(p) ==
    LET w == worker[p]
    IN /\ w.pc = "ut_load"
       /\ Local(p, IF ~Exists(storage, TIMESTAMP) THEN Raised(w)
                   ELSE [w EXCEPT !.pc = "ut_persist",
                                  !.role = UpdatedTimestamp(Load(storage, TIMESTAMP),
                                             w.snapshot_version, now, settings, keyvault)])

\* lines 126-128, and the return of the calling operation
UT_Persist(p) ==
    LET w == worker[p]
    IN /\ w.pc = "ut_persist"
       /\ Store(p, TIMESTAMP,
                Returned(w, IF w.op = "publish_targets_metas" THEN "None" ELSE "True"))

\* ----------------------------------------------------- publish_targets_metas
NameLists == UNION {[1..n -> BinsSet] : n \in 0..MaxNames}

publish_targets_metas(p, bins_names) ==
    /\ worker[p].pc = "idle"
    /\ CanStart
    /\ Begin(p, "publish_targets_metas", bins_names,
             {bins_names[i] : i \in 1..Len(bins_names)}, "pt_load_snapshot")

\* After the loop over the bins (lines 223-228, 259-283).
AfterLoop(w, tm, res) ==
    IF HasChanges(tm)
    THEN [w EXCEPT !.targets_meta = tm, !.pc = "us_load", !.role = NoDoc,
                   !.idx = 0]
    ELSE Returned([w EXCEPT !.targets_meta = tm], res)

\* One pass of a loop over w.names is over.
NextName(w, tm, label, res) ==
    IF w.idx = Len(w.names) THEN AfterLoop(w, tm, res)
    ELSE [w EXCEPT !.targets_meta = tm, !.idx = @ + 1, !.pc = label,
                   !.role = NoDoc]

\* lines 213-215
PT_LoadSnapshot(p) ==
    LET w == worker[p]
    IN /\ w.pc = "pt_load_snapshot"
       /\ Local(p, IF ~Exists(storage, SNAPSHOT) THEN Raised(w)
                   ELSE IF w.args = <<>> THEN AfterLoop(w, <<>>, "None")
                   ELSE [w EXCEPT !.snapshot = Load(storage, SNAPSHOT),
                                  !.names = w.args, !.idx = 1, !.args = <<>>,
                                  !.pc = "pt_load_bins"])

\* lines 216-221
PT_LoadBins(p) ==
    LET w == worker[p]
        name == w.names[w.idx]
        bins_role == Load(storage, name)
    IN /\ w.pc = "pt_load_bins"
       /\ Local(p, IF ~Exists(storage, name) \/ name \notin DOMAIN w.snapshot.meta
                   THEN Raised(w)
                   ELSE NextName(w,
                            IF BinChanged(w.snapshot, name, bins_role)
                            THEN Append(w.targets_meta, MetaEntry(name, bins_role))
                            ELSE w.targets_meta,
                            "pt_load_bins", "None"))

\* ----------------------------------------------------------- bump_bins_roles
bump_bins_roles(p) ==
    /\ worker[p].pc = "idle"
    /\ CanStart
    /\ Begin(p, "bump_bins_roles", <<>>, {}, "bb_load_bin")

\* lines 240-247
BB_LoadBin(p) ==
    LET w == worker[p]
        roles == Load(storage, BIN).succinct_roles
    IN /\ w.pc = "bb_load_bin"
       /\ Local(p, IF ~Exists(storage, BIN) THEN Raised(w)
                   ELSE IF roles = <<>> THEN AfterLoop(w, <<>>, "True")
                   ELSE [w EXCEPT !.names = roles, !.idx = 1,
                                  !.pc = "bb_load_bins"])

\* lines 248-255
BB_LoadBins(p) ==
    LET w == worker[p]
        name == w.names[w.idx]
        bins_role == Load(storage, name)
    IN /\ w.pc = "bb_load_bins"
       /\ Local(p, IF ~Exists(storage, name) THEN Raised(w)
                   ELSE IF NearExpiry(bins_role, now, settings)
                   THEN [w EXCEPT !.pc = "bb_persist",
                                  !.role = UpdatedBinsRole(bins_role, <<>>, now,
                                                           settings, keyvault)]
                   ELSE NextName(w, w.targets_meta, "bb_load_bins", "True"))

\* lines 256-257
BB_Persist(p) ==
    LET w == worker[p]
        name == w.names[w.idx]
    IN /\ w.pc = "bb_persist"
       /\ Store(p, name,
                NextName(w, Append(w.targets_meta, MetaEntry(name, w.role)),
                         "bb_load_bins", "True"))

\* ------------------------------------------------------------- bump_snapshot
bump_snapshot(p) ==
    /\ worker[p].pc = "idle"
    /\ CanStart
    /\ Begin(p, "bump_snapshot", <<>>, {}, "bs_load")

\* lines 296-305, 316-323
BS_Load(p) ==
    LET w == worker[p]
    IN /\ w.pc = "bs_load"
       /\ Local(p, IF ~Exists(storage, SNAPSHOT) THEN Raised(w)
                   ELSE IF NearExpiry(Load(storage, SNAPSHOT), now, settings)
                   THEN [w EXCEPT !.pc = "us_load"]
                   ELSE Returned(w, "True"))

\* ------------------------------------------------------------ specifications
\* The steps inside an operation.
Inside(p) ==
    \/ AT_LoadBin(p)
    \/ AT_LoadBins(p)
    \/ AT_Persist(p)
    \/ PT_LoadSnapshot(p)
    \/ PT_LoadBins(p)
    \/ BB_LoadBin(p)
    \/ BB_LoadBins(p)
    \/ BB_Persist(p)
    \/ BS_Load(p)
    \/ US_Load(p)
    \/ US_Persist(p)
    \/ UT_Load(p)
    \/ UT_Persist(p)
    \/ Return(p)

\* One worker: operations run one after the other; calls may raise and the
\* clock advances.
Next ==
    \/ \E e \in InitExpires : add_initial_metadata(e)
    \/ \E d \in TickSteps : Tick(d)
    \/ \E p \in SeqProcs :
        \/ \E targets \in Batches : add_targets(p, targets)
        \/ \E bins_names \in NameLists : publish_targets_metas(p, bins_names)
        \/ bump_bins_roles(p)
        \/ bump_snapshot(p)
        \/ Inside(p)
        \/ Fault(p)

Spec == Init /\ [][Next]_vars

\* Two workers whose load and persist steps interleave; every call carries one
\* target or one bin name and no call raises.
ConcBatches == {<<t>> : t \in TargetInputs}
ConcNameLists == {<<b>> : b \in BinsSet}

NextConc ==
    \/ \E e \in InitExpires : add_initial_metadata(e)
    \/ \E d \in TickSteps : Tick(d)
    \/ \E p \in Procs :
        \/ \E targets \in ConcBatches : add_targets(p, targets)
        \/ \E bins_names \in ConcNameLists : publish_targets_metas(p, bins_names)
        \/ bump_bins_roles(p)
        \/ bump_snapshot(p)
        \/ Inside(p)

SpecConc == Init /\ [][NextConc]_vars

\* Two bump_bins_roles calls in immediate succession, for several freshness
\* windows (hours) and bins expiration intervals (days): call 2 is the second
\* sweep, started once call 1, a sweep, has returned (whatever the number of
\* stored files); the clock only advances while no call is under way.
FreshnessWindows == {1, HoursPerDay + 1}
BinsExpirations == {1, 2}

SweepSettings ==
    { [HOURS_BEFORE_EXPIRE |-> h,
       EXPIRATION |-> (BINS :> d @@ SNAPSHOT :> 1 @@ TIMESTAMP :> 1)] :
        h \in FreshnessWindows, d \in BinsExpirations }

InitSweep ==
    /\ storage = EmptyStorage
    /\ keyvault \in KeyChoices
    /\ settings \in SweepSettings
    /\ now = 0
    /\ ticks = 0
    /\ failures = 0
    /\ worker = [p \in Procs |-> IdleWorker]

SweepTick(d) ==
    /\ \A p \in Procs : worker[p].pc = "idle"
    /\ Tick(d)

SecondSweep ==
    /\ worker[2].pc = "idle"
    /\ worker[1].pc = "done"
    /\ worker[1].op = "bump_bins_roles"
    /\ worker[1].result = "True"
    /\ Begin(2, "bump_bins_roles", <<>>, {}, "bb_load_bin")

FirstCalls ==
    /\ worker[2].pc = "idle"
    /\ \/ \E targets \in ConcBatches : add_targets(1, targets)
       \/ \E bins_names \in ConcNameLists : publish_targets_metas(1, bins_names)
       \/ bump_bins_roles(1)
       \/ bump_snapshot(1)
       \/ Inside(1)

\* The steps inside the second sweep.
InsideSecond ==
    \/ BB_LoadBin(2)
    \/ BB_LoadBins(2)
    \/ BB_Persist(2)
    \/ US_Load(2)
    \/ US_Persist(2)
    \/ UT_Load(2)
    \/ UT_Persist(2)

\* Both sweeps have returned: the caller goes on.
SweepsReturn ==
    /\ \A p \in Procs : worker[p].pc = "done"
    /\ worker' = [p \in Procs |-> IdleWorker]
    /\ UNCHANGED <<storage, keyvault, settings, now, ticks, failures>>

NextSweep ==
    \/ \E e \in InitExpires : add_initial_metadata(e)
    \/ \E d \in TickSteps : SweepTick(d)
    \/ FirstCalls
    \/ SecondSweep
    \/ InsideSecond
    \/ SweepsReturn

SpecSweep == InitSweep /\ [][NextSweep]_vars

\* One worker with a key vault whose keys are replaced between calls: a role
\* has no key, one key or two keys.
SignVaults ==
    { (BINS :> {} @@ SNAPSHOT :> {} @@ TIMESTAMP :> {}),
      (BINS :> {"k1"} @@ SNAPSHOT :> {"k1", "k2"} @@ TIMESTAMP :> {}),
      (BINS :> {"k2", "k3"} @@ SNAPSHOT :> {"k3"} @@ TIMESTAMP :> {"k2"}) }

InitSign ==
    /\ storage = EmptyStorage
    /\ keyvault \in SignVaults
    /\ settings \in SettingsChoices
    /\ now = 0
    /\ ticks = 0
    /\ failures = 0
    /\ worker = [p \in Procs |-> IdleWorker]

\* The keys the key vault returns change while no call is under way.
Rotate(kv) ==
    /\ \A p \in Procs : worker[p].pc = "idle"
    /\ kv # keyvault
    /\ keyvault' = kv
    /\ UNCHANGED <<storage, settings, now, ticks, failures, worker>>

NextSign ==
    \/ \E e \in InitExpires : add_initial_metadata(e)
    \/ \E d \in TickSteps : Tick(d)
    \/ \E kv \in SignVaults : Rotate(kv)
    \/ \E p \in SeqProcs :
        \/ \E targets \in ConcBatches : add_targets(p, targets)
        \/ \E bins_names \in ConcNameLists : publish_targets_metas(p, bins_names)
        \/ bump_bins_roles(p)
        \/ bump_snapshot(p)
        \/ Inside(p)

SpecSign == InitSign /\ [][NextSign]_vars

\* ==================================================================== claims
PublishOps == {"publish_targets_metas", "bump_bins_roles", "bump_snapshot"}

\* The call of frame w persisted a document of role_name.
Wrote(w, role_name) == \E i \in DOMAIN w.written : w.written[i][1] = role_name

\* The call of frame w returned without raising.
Completed(w) == w.pc = "done" /\ w.result # "raised"

\* The call of frame w returned success.
Succeeded(w) == w.pc = "done" /\ w.result \in {"None", "True", "list"}

Quiescent == \A p \in Procs : worker[p].pc \in {"idle", "done"}

SnapshotMeta(st) == Load(st, SNAPSHOT).meta

\* C1: after a successful publish cycle that persisted a Snapshot (one
\* operation at a time), the stored Timestamp points at the version of the
\* latest stored Snapshot.
C1_TimestampPointsAtSnapshot ==
    \A p \in Procs :
        LET w == worker[p]
        IN (Succeeded(w) /\ w.op \in PublishOps /\ Wrote(w, SNAPSHOT))
            => Load(storage, TIMESTAMP).snapshot_meta.version
                 = Load(storage, SNAPSHOT).version

\* A publish cycle succeeded after an earlier one had already moved Snapshot.
C1_Witness ==
    \E p \in Procs :
        /\ Succeeded(worker[p])
        /\ worker[p].op \in PublishOps
        /\ Wrote(worker[p], SNAPSHOT)
        /\ Load(storage, SNAPSHOT).version = 3
        /\ Load(storage, TIMESTAMP).snapshot_meta.version = 3

\* C2 (as claimed): a publish_targets_metas call whose named bins all stand at
\* the version Snapshot already records leaves Snapshot and Timestamp as they
\* were.
C2_NoOpPublish ==
    \A p \in Procs :
        LET w == worker[p]
        IN (/\ Succeeded(w)
            /\ w.op = "publish_targets_metas"
            /\ \A b \in w.called_for :
                 Load(w.pre, b).version = SnapshotMeta(w.pre)[b].version)
            => /\ FilesOf(storage, SNAPSHOT) = FilesOf(w.pre, SNAPSHOT)
               /\ Load(storage, TIMESTAMP) = Load(w.pre, TIMESTAMP)

\* C3 (as claimed): two cycles never persist a document of the same bin under
\* the same version.
C3_NoLostUpdate ==
    \A p, q \in Procs :
        p # q =>
            \A i \in DOMAIN worker[p].written, j \in DOMAIN worker[q].written :
                worker[p].written[i][1] \in BinsSet
                    => worker[p].written[i] # worker[q].written[j]

\* C4 (as claimed): racing publish cycles never persist two Snapshots under one
\* version, never leave Timestamp pointing at another Snapshot than the latest,
\* and never lose a bin version one of them recorded.
C4_PublishSerialized ==
    /\ \A p, q \in Procs :
        p # q =>
            \A i \in DOMAIN worker[p].written, j \in DOMAIN worker[q].written :
                worker[p].written[i][1] = SNAPSHOT
                    => worker[p].written[i] # worker[q].written[j]
    /\ (Quiescent /\ Exists(storage, SNAPSHOT))
        => /\ Load(storage, TIMESTAMP).snapshot_meta.version
                = Load(storage, SNAPSHOT).version
           /\ \A p \in Procs :
                (Succeeded(worker[p]) /\ Wrote(worker[p], SNAPSHOT))
                => \A i \in DOMAIN worker[p].targets_meta :
                     SnapshotMeta(storage)[worker[p].targets_meta[i][1]].version
                        >= worker[p].targets_meta[i][2]

\* C5 (as claimed): whenever no operation is under way, also after one that
\* failed at Snapshot or Timestamp level, Timestamp points at the latest
\* stored Snapshot.
C5_NoPartialPropagation ==
    (Quiescent /\ Exists(storage, SNAPSHOT))
        => Load(storage, TIMESTAMP).snapshot_meta.version
             = Load(storage, SNAPSHOT).version

\* C6 (as claimed): when add_targets fails on one bin, every other bin of the
\* batch is still persisted and reported.
C6_SiblingsProcessed ==
    \A p \in Procs :
        LET w == worker[p]
        IN (w.pc = "done" /\ w.op = "add_targets" /\ w.failed_at \in BinsSet)
            => \A b \in w.called_for \ {w.failed_at} :
                 /\ Wrote(w, b)
                 /\ \E i \in DOMAIN w.targets_meta : w.targets_meta[i][1] = b

\* C7: an operation that completes persisted Timestamp if and only if it
\* persisted a new Snapshot.
C7_TimestampIffSnapshot ==
    \A p \in Procs :
        LET w == worker[p]
        IN (Completed(w) /\ w.op \in PublishOps)
            => (Wrote(w, TIMESTAMP) <=> Wrote(w, SNAPSHOT))

\* An operation completed having persisted both.
C7_Witness ==
    \E p \in Procs :
        /\ Completed(worker[p])
        /\ worker[p].op \in PublishOps
        /\ Wrote(worker[p], TIMESTAMP)
        /\ Wrote(worker[p], SNAPSHOT)

\* The bin versions Snapshot records differ from those at the call's start.
MapChanged(w) == SnapshotMeta(storage) # SnapshotMeta(w.pre)

C9_RecordedVersionsExist ==
    \A p \in Procs :
        LET w == worker[p]
        IN (Succeeded(w) /\ w.op \in PublishOps /\ Wrote(w, SNAPSHOT))
            => \A b \in DOMAIN SnapshotMeta(storage) :
                 /\ <<b, SnapshotMeta(storage)[b].version>> \in DOMAIN storage
                 /\ storage[<<b, SnapshotMeta(storage)[b].version>>].version
                      = SnapshotMeta(storage)[b].version

\* publish_targets_metas recorded a bin version that add_targets had persisted.
C9_Witness ==
    \E p \in Procs :
        /\ Succeeded(worker[p])
        /\ worker[p].op = "publish_targets_metas"
        /\ Wrote(worker[p], SNAPSHOT)
        /\ \E b \in worker[p].called_for : SnapshotMeta(storage)[b].version = 2

\* C10: every document an operation persists is persisted once, with the
\* version it had when the operation started plus 1.
C10_ExactlyOneBump ==
    \A p \in Procs :
        LET w == worker[p]
        IN \A i \in DOMAIN w.written :
            /\ \A j \in DOMAIN w.written : j # i => w.written[j][1] # w.written[i][1]
            /\ storage[w.written[i]].version
                 = Load(w.pre, w.written[i][1]).version + 1

\* add_targets returned after two targets of its batch went into one bin.
C10_Witness ==
    \E p \in Procs :
        LET w == worker[p]
        IN /\ Succeeded(w)
           /\ w.op = "add_targets"
           /\ w.written = <<<<"bins-0", 2>>>>
           /\ DOMAIN Load(storage, "bins-0").targets = {"a", "c"}
           /\ DOMAIN Load(w.pre, "bins-0").targets = {}

\* The bin names of the (name, version) pairs the call of frame w collected.
ChangedSet(w) == {w.targets_meta[i][1] : i \in DOMAIN w.targets_meta}

\* C11: after a publish_targets_metas or bump_bins_roles call that persisted
\* Snapshot (one operation at a time), the Snapshot entry of every bin outside
\* the changed set, and of every bin whose stored version is the one Snapshot
\* recorded before, is the entry Snapshot had before the call, and Snapshot's
\* version is the previous one plus 1 whatever the number of changed bins.
C11_OnlyChangedEntries ==
    \A p \in Procs :
        LET w == worker[p]
        IN (/\ Succeeded(w)
            /\ w.op \in {"publish_targets_metas", "bump_bins_roles"}
            /\ Wrote(w, SNAPSHOT))
            => /\ Load(storage, SNAPSHOT).version
                    = Load(w.pre, SNAPSHOT).version + 1
               /\ DOMAIN SnapshotMeta(storage) = DOMAIN SnapshotMeta(w.pre)
               /\ \A b \in DOMAIN SnapshotMeta(w.pre) :
                    (\/ b \notin ChangedSet(w)
                     \/ Load(storage, b).version = SnapshotMeta(w.pre)[b].version)
                    => SnapshotMeta(storage)[b] = SnapshotMeta(w.pre)[b]

\* publish_targets_metas recorded the new version of bins-1 and left the entry
\* of bins-0 as it was.
C11_Witness ==
    \E p \in Procs :
        LET w == worker[p]
        IN /\ Succeeded(w)
           /\ w.op = "publish_targets_metas"
           /\ ChangedSet(w) = {"bins-1"}
           /\ SnapshotMeta(w.pre)["bins-1"].version = 1
           /\ SnapshotMeta(storage)["bins-1"].version = 2
           /\ SnapshotMeta(storage)["bins-0"] = SnapshotMeta(w.pre)["bins-0"]
           /\ Load(storage, SNAPSHOT).version = 2

\* C12 (as claimed): a bump_bins_roles call that follows a successful
\* bump_bins_roles call with no time passing in between writes nothing, for
\* every freshness window and bins expiration interval: no bin, Snapshot or
\* Timestamp version changes during it.
C12_SecondSweepNoOp ==
    (/\ Succeeded(worker[1])
     /\ worker[1].op = "bump_bins_roles"
     /\ Succeeded(worker[2])
     /\ worker[2].op = "bump_bins_roles")
        => /\ worker[2].written = <<>>
           /\ storage = worker[2].pre

\* The steps of bump_snapshot: the step that compares snapshot.expires - now
\* with the freshness window goes on to the update when the difference is
\* smaller and returns True with nothing written otherwise, and the call
\* returns from the update only with Snapshot and Timestamp persisted.
C13_Decision ==
    \A p \in Procs :
        LET w == worker[p]
            w2 == worker'[p]
        IN /\ (/\ w.pc = "bs_load"
               /\ w2.pc # "bs_load"
               /\ failures' = failures
               /\ Exists(storage, SNAPSHOT))
              => IF Load(storage, SNAPSHOT).expires - now
                      < settings.HOURS_BEFORE_EXPIRE
                 THEN w2.pc = "us_load"
                 ELSE /\ w2.pc = "done"
                      /\ w2.result = "True"
                      /\ w2.written = <<>>
                      /\ storage' = storage
           /\ (/\ w.op = "bump_snapshot"
               /\ w.pc \in {"us_load", "us_persist", "ut_load", "ut_persist"}
               /\ Succeeded(w2))
              => Wrote(w2, SNAPSHOT) /\ Wrote(w2, TIMESTAMP)

\* What a bump_snapshot call that returned True left behind: nothing, or one
\* new Snapshot and one new Timestamp, each one version up, Timestamp pointing
\* at the new Snapshot, the bin-version map and the bins as they were.
C13_Outcome ==
    \A p \in Procs :
        LET w == worker[p]
        IN (Succeeded(w) /\ w.op = "bump_snapshot")
            => \/ w.written = <<>> /\ storage = w.pre
               \/ /\ w.written
                       = << <<SNAPSHOT, Load(w.pre, SNAPSHOT).version + 1>>,
                            <<TIMESTAMP, 0>> >>
                  /\ Load(storage, SNAPSHOT).version
                       = Load(w.pre, SNAPSHOT).version + 1
                  /\ Load(storage, TIMESTAMP).version
                       = Load(w.pre, TIMESTAMP).version + 1
                  /\ Load(storage, TIMESTAMP).snapshot_meta
                       = MetaFile(Load(storage, SNAPSHOT).version)
                  /\ SnapshotMeta(storage) = SnapshotMeta(w.pre)
                  /\ \A b \in BinsSet \cup {BIN} :
                       FilesOf(storage, b) = FilesOf(w.pre, b)

\* C13: bump_snapshot run while snapshot.expires - now is smaller than the
\* freshness window bumps Snapshot and Timestamp by one version each,
\* Timestamp points at the new Snapshot and the bin-version map is the one
\* from before; run while it is not smaller, it writes nothing.
C13_SnapshotSweep == []C13_Outcome /\ [][C13_Decision]_vars

\* bump_snapshot renewed a Snapshot that an earlier bump_snapshot had written,
\* after the clock had moved it into the freshness window again.
C13_Witness ==
    \E p \in Procs :
        LET w == worker[p]
        IN /\ Succeeded(w)
           /\ w.op = "bump_snapshot"
           /\ Wrote(w, SNAPSHOT)
           /\ Load(storage, SNAPSHOT).version = 3
           /\ Load(storage, TIMESTAMP).snapshot_meta.version = 3
           /\ SnapshotMeta(storage) = SnapshotMeta(w.pre)

\* C14: a bump_bins_roles call whose load of the top-level "bin" role fails
\* returns False instead of raising, and has written no bin, Snapshot or
\* Timestamp document.
C14_BinNotFound ==
    \A p \in Procs :
        LET w == worker[p]
        IN (w.pc = "done" /\ w.op = "bump_bins_roles" /\ w.failed_at = BIN)
            => /\ w.result = "False"
               /\ w.written = <<>>
               /\ storage = w.pre

\* The load of "bin" failed in a sweep over an initialised repository.
C14_Witness ==
    \E p \in Procs :
        LET w == worker[p]
        IN /\ w.pc = "done"
           /\ w.op = "bump_bins_roles"
           /\ w.failed_at = BIN
           /\ w.result = "False"
           /\ Exists(storage, SNAPSHOT)

\* C15 (as claimed): no operation raises to its caller; a failed load or a
\* rejected persist still ends in a returned result.
C15_NoOperationThrows ==
    \A p \in Procs : worker[p].result # "raised"

\* C16 (as claimed): no operation persists a new version of a bin whose targets
\* map is equal to that of its previous version.
C16_NoResignUnchanged ==
    \A p \in Procs :
        LET w == worker[p]
        IN \A i \in DOMAIN w.written :
            w.written[i][1] \in BinsSet
                => storage[w.written[i]].targets
                     # Load(w.pre, w.written[i][1]).targets

\* A step persists a document of bin b only as add_targets with at least one
\* target of the batch assigned to b, or as bump_bins_roles with b inside the
\* freshness window, and then with the targets map b had.
C16_Step ==
    \A b \in BinsSet :
        (Exists(storage, b) /\ FilesOf(storage', b) # FilesOf(storage, b))
            => \E p \in Procs :
                LET w == worker[p]
                IN /\ CurrentRole(w) = b
                   /\ \/ /\ w.op = "add_targets"
                         /\ w.pc = "at_persist"
                         /\ w.groups[w.idx].files # <<>>
                      \/ /\ w.op = "bump_bins_roles"
                         /\ w.pc = "bb_persist"
                         /\ Load(storage, b).expires - now
                              < settings.HOURS_BEFORE_EXPIRE
                         /\ Load(storage', b).targets = Load(storage, b).targets

\* C16 (amended): a new version of a bin is persisted only by add_targets for
\* a bin that received a target of the batch (whether or not its targets map
\* changes) and by bump_bins_roles for a bin inside the freshness window
\* (whose targets map stays as it was).
C16_ResignOnlyWhenTouched == [][C16_Step]_vars

\* add_targets persisted a new version of bins-0 for a target the bin already
\* held with the same info.
C16_Witness ==
    \E p \in Procs :
        LET w == worker[p]
        IN /\ Succeeded(w)
           /\ w.op = "add_targets"
           /\ w.written = <<<<"bins-0", 3>>>>
           /\ Load(storage, "bins-0").targets = Load(w.pre, "bins-0").targets

\* C17: every path held by a stored bin document, of whatever version, is held
\* by the bin get_role_for_target assigns to it: no path is in the targets map
\* of two bins, and repeated ingests of a path end up in the same bin.
C17_BinsDisjoint ==
    \A f \in DOMAIN storage :
        f[1] \in BinsSet
            => \A path \in DOMAIN storage[f].targets :
                 get_role_for_target(path) = f[1]

\* Path "a" was ingested twice (two infos) and path "b" once: "a" is in
\* bins-0 alone, "b" in bins-1 alone.
C17_Witness ==
    /\ Exists(storage, "bins-0")
    /\ Exists(storage, "bins-1")
    /\ <<"bins-0", 3>> \in DOMAIN storage
    /\ "a" \in DOMAIN storage[<<"bins-0", 2>>].targets
    /\ "a" \in DOMAIN storage[<<"bins-0", 3>>].targets
    /\ storage[<<"bins-0", 2>>].targets["a"] # storage[<<"bins-0", 3>>].targets["a"]
    /\ "b" \in DOMAIN Load(storage, "bins-1").targets
    /\ "a" \notin DOMAIN Load(storage, "bins-1").targets

\* The role name under which a document of the named role is signed.
SignedAs(role_name) == IF role_name \in BinsSet THEN BINS ELSE role_name

\* C18: every document an operation persisted carries exactly the signatures
\* of the keys the key vault returns for its role during that call, none of
\* an earlier signing pass; with no key the document is persisted with an
\* empty signature set.
C18_SignReplaces ==
    \A p \in Procs :
        LET w == worker[p]
        IN \A i \in DOMAIN w.written :
            /\ w.written[i] \in DOMAIN storage
            /\ storage[w.written[i]].signatures
                 = keyvault[SignedAs(w.written[i][1])]

\* A call persisted Snapshot with the two signatures of its two keys and
\* Timestamp with none, over documents that carried another signature.
C18_Witness ==
    \E p \in Procs :
        LET w == worker[p]
        IN /\ Succeeded(w)
           /\ Wrote(w, SNAPSHOT)
           /\ Wrote(w, TIMESTAMP)
           /\ Load(w.pre, SNAPSHOT).signatures = {"k3"}
           /\ Load(w.pre, TIMESTAMP).signatures = {"k2"}
           /\ Load(storage, SNAPSHOT).signatures = {"k1", "k2"}
           /\ Load(storage, TIMESTAMP).signatures = {}

\* The step of add_targets that persists a bin: the persisted version holds
\* exactly the paths of the previous version and of the incoming targets of
\* this bin, the last incoming entry of a path under that path, and the
\* previous entry under every path that is not incoming.
C19_Step ==
    \A p \in Procs :
        LET w == worker[p]
            name == w.groups[w.idx].name
            files == w.groups[w.idx].files
            paths == {files[i].path : i \in DOMAIN files}
            old == Load(storage, name)
            new == storage'[<<name, old.version + 1>>]
        IN (w.pc = "at_persist" /\ storage' # storage)
            => /\ <<name, old.version + 1>> \in DOMAIN storage'
               /\ files # <<>>
               /\ DOMAIN new.targets = DOMAIN old.targets \cup paths
               /\ \A i \in DOMAIN files :
                    (\A j \in DOMAIN files : j > i => files[j].path # files[i].path)
                        => new.targets[files[i].path] = files[i].info
               /\ \A q \in DOMAIN old.targets \ paths :
                    new.targets[q] = old.targets[q]

\* C19: add_targets upserts by path: the new version of each affected bin
\* holds every incoming target of the bin under its path (an existing path is
\* overwritten, of two entries for one path the later wins) and retains every
\* previous entry whose path is not in the batch.
C19_UpsertByPath == [][C19_Step]_vars

\* add_targets overwrote the entry of path "a" and retained that of path "c".
C19_Witness ==
    \E p \in Procs :
        LET w == worker[p]
        IN /\ Succeeded(w)
           /\ w.op = "add_targets"
           /\ Load(w.pre, "bins-0").targets = ("a" :> 1 @@ "c" :> 1)
           /\ Load(storage, "bins-0").targets = ("a" :> 2 @@ "c" :> 1)

\* The latest stored version of bin b is above the one Snapshot records.
Ahead(st, b) ==
    /\ Exists(st, b)
    /\ Exists(st, SNAPSHOT)
    /\ Load(st, b).version > SnapshotMeta(st)[b].version

\* add_targets leaves every Snapshot and Timestamp document as it was, and the
\* list it returns names exactly the bins that received a target of the batch,
\* each once, with the version it persisted for the bin, which is above the
\* version Snapshot records.
C20_Ingest ==
    \A p \in Procs :
        LET w == worker[p]
            tm == w.targets_meta
        IN w.op = "add_targets"
            => /\ \A f \in DOMAIN storage \cup DOMAIN w.pre :
                    f[1] \in {SNAPSHOT, TIMESTAMP}
                        => /\ f \in DOMAIN storage \cap DOMAIN w.pre
                           /\ storage[f] = w.pre[f]
               /\ Succeeded(w)
                    => /\ w.result = "list"
                       /\ {tm[i][1] : i \in DOMAIN tm} = w.called_for
                       /\ \A i, j \in DOMAIN tm : tm[i][1] = tm[j][1] => i = j
                       /\ \A i \in DOMAIN tm :
                            /\ w.written[i] = <<tm[i][1], tm[i][2]>>
                            /\ Load(storage, tm[i][1]).version = tm[i][2]
                            /\ tm[i][2] = Load(w.pre, tm[i][1]).version + 1
                            /\ Ahead(storage, tm[i][1])

\* C20 (as claimed): add_targets never writes Snapshot or Timestamp and returns
\* the bins it bumped with their new versions, and while no call raises a bin
\* that is ahead of the version Snapshot records stays ahead until a
\* publish_targets_metas call for its name.
C20_AheadUntilPublish ==
    /\ C20_Ingest
    /\ \A p \in Procs :
        LET w == worker[p]
        IN \A b \in BinsSet :
            (failures = 0 /\ Ahead(w.pre, b) /\ ~Ahead(storage, b))
                => w.op = "publish_targets_metas" /\ b \in w.called_for

\* C20 (amended): as claimed, except that a bin ahead of the version Snapshot
\* records stays ahead until a publish_targets_metas call for its name or a
\* bump_bins_roles call that bumps the bin again.
C20_AheadUntilRecorded ==
    /\ C20_Ingest
    /\ \A p \in Procs :
        LET w == worker[p]
        IN \A b \in BinsSet :
            (Ahead(w.pre, b) /\ ~Ahead(storage, b))
                => \/ w.op = "publish_targets_metas" /\ b \in w.called_for
                   \/ w.op = "bump_bins_roles" /\ Wrote(w, b)

\* add_targets returned both bins at version 2 while Snapshot, untouched, still
\* records version 1 for them.
C20_Witness ==
    \E p \in Procs :
        LET w == worker[p]
        IN /\ Succeeded(w)
           /\ w.op = "add_targets"
           /\ w.targets_meta = << <<"bins-0", 2>>, <<"bins-1", 2>> >>
           /\ Load(storage, SNAPSHOT) = Load(w.pre, SNAPSHOT)
           /\ SnapshotMeta(storage)["bins-0"].version = 1
           /\ SnapshotMeta(storage)["bins-1"].version = 1

====
